---- MODULE Spec2Model ----
(***************************************************************************)
(* Narrow-phase collision detection and ray intersection of                *)
(* CSC8503Common/CollisionDetection.cpp, with the GameObject state of      *)
(* CSC8503Common/GameObject.cpp.                                           *)
(*                                                                         *)
(* Numbers.  A float is a fixed-point integer counting units of 1/One.     *)
(* Products and quotients round to the nearest unit, symmetrically in the  *)
(* sign (as IEEE round-to-nearest is).  Orientations are rotations by      *)
(* multiples of a quarter turn, held as integer 3x3 matrices, so rotating  *)
(* a vector is exact.                                                      *)
(***************************************************************************)
EXTENDS Integers, Sequences, FiniteSets, TLC

VARIABLES
    objs,       \* the GameObjects: worldID, boundingVolume, transform
    info,       \* the caller's CollisionInfo (a, b, point)
    hit,        \* what the last ObjectIntersection returned
    rayColl,    \* the caller's RayCollision (collidedAt, rayDistance)
    rayHit,     \* what the last RayIntersection returned
    last,       \* the last call made: operation and arguments
    cols,       \* CollisionInfo records handed to operator<
    less        \* the results of the last operator< comparisons

vars == <<objs, info, hit, rayColl, rayHit, last, cols, less>>

----------------------------------------------------------------------------
(* Scalars *)

One == 1000
Half == One \div 2
FLT_MAX == 2000000000

Abs(x) == IF x < 0 THEN -x ELSE x
Sgn(x) == IF x < 0 THEN -1 ELSE IF x > 0 THEN 1 ELSE 0
Min(x, y) == IF x < y THEN x ELSE y
Max(x, y) == IF x > y THEN x ELSE y

\* n / d rounded to the nearest integer, halves away from zero (d # 0)
RDiv(n, d) == Sgn(n) * Sgn(d) * ((2 * Abs(n) + Abs(d)) \div (2 * Abs(d)))

FMul(a, b) == RDiv(a * b, One)
FDiv(a, b) == RDiv(a * One, b)

RECURSIVE SqrtSearch(_, _, _)
SqrtSearch(n, lo, hi) ==
    IF lo >= hi THEN lo
    ELSE LET mid == (lo + hi + 1) \div 2
         IN  IF mid * mid <= n THEN SqrtSearch(n, mid, hi)
                               ELSE SqrtSearch(n, lo, mid - 1)

\* the square root of n rounded to the nearest integer (0 <= n < 2^31)
ISqrt(n) ==
    LET s == SqrtSearch(n, 0, 46340)
    IN  IF n - s * s > s THEN s + 1 ELSE s

\* sqrt of a fixed-point number
FSqrt(a) == ISqrt(a * One)

\* Maths::Clamp on floats
Clamp(v, lo, hi) == Min(Max(v, lo), hi)

----------------------------------------------------------------------------
(* Vector3 *)

Vec(x, y, z) == <<x, y, z>>
Zero3 == <<0, 0, 0>>

VAdd(a, b) == <<a[1] + b[1], a[2] + b[2], a[3] + b[3]>>
VSub(a, b) == <<a[1] - b[1], a[2] - b[2], a[3] - b[3]>>
VNeg(a) == <<-a[1], -a[2], -a[3]>>
VScale(a, s) == <<FMul(a[1], s), FMul(a[2], s), FMul(a[3], s)>>
Dot(a, b) == RDiv(a[1] * b[1] + a[2] * b[2] + a[3] * b[3], One)
Cross(a, b) ==
    <<FMul(a[2], b[3]) - FMul(a[3], b[2]),
      FMul(a[3], b[1]) - FMul(a[1], b[3]),
      FMul(a[1], b[2]) - FMul(a[2], b[1])>>
\* (the root of one square is taken without the search)
Length(a) ==
    IF a[2] = 0 /\ a[3] = 0 THEN Abs(a[1])
    ELSE IF a[1] = 0 /\ a[3] = 0 THEN Abs(a[2])
    ELSE IF a[1] = 0 /\ a[2] = 0 THEN Abs(a[3])
    ELSE ISqrt(a[1] * a[1] + a[2] * a[2] + a[3] * a[3])

\* Vector3::Normalised: a zero-length vector is returned as it is
Normalised(a) ==
    LET len == Length(a)
    IN  IF len # 0 THEN <<FDiv(a[1], len), FDiv(a[2], len), FDiv(a[3], len)>>
                   ELSE a

VClamp(v, lo, hi) ==
    <<Clamp(v[1], lo[1], hi[1]), Clamp(v[2], lo[2], hi[2]), Clamp(v[3], lo[3], hi[3])>>

GetMaxElement(v) == Max(v[1], Max(v[2], v[3]))

----------------------------------------------------------------------------
(* Orientation: a rotation as the rows of its matrix *)

RotId == <<<<1, 0, 0>>, <<0, 1, 0>>, <<0, 0, 1>>>>
\* a quarter turn about z: x -> y, y -> -x
RotZ == <<<<0, -1, 0>>, <<1, 0, 0>>, <<0, 0, 1>>>>

\* Quaternion * Vector3, and Matrix3(orientation) * Vector3
Rotate(q, v) ==
    <<q[1][1] * v[1] + q[1][2] * v[2] + q[1][3] * v[3],
      q[2][1] * v[1] + q[2][2] * v[2] + q[2][3] * v[3],
      q[3][1] * v[1] + q[3][2] * v[2] + q[3][3] * v[3]>>

\* Quaternion::Conjugate: the inverse rotation
Conjugate(q) ==
    <<<<q[1][1], q[2][1], q[3][1]>>,
      <<q[1][2], q[2][2], q[3][2]>>,
      <<q[1][3], q[2][3], q[3][3]>>>>

(* Transform: position, orientation, scale *)
Transform(p, q, s) == [position |-> p, orientation |-> q, scale |-> s]

\* a default-constructed Transform after SetPosition(p), SetScale(s)
TempTransform(p, s) == Transform(p, RotId, s)

\* Transform::GetMatrix() * v: scale, then rotate, then translate
GetMatrixTimes(t, v) ==
    VAdd(t.position,
         Rotate(t.orientation,
                <<FMul(t.scale[1], v[1]), FMul(t.scale[2], v[2]), FMul(t.scale[3], v[3])>>))

----------------------------------------------------------------------------
(* CollisionVolume: VolumeType is a set of bit flags *)

TypeAABB == 1
TypeOBB == 2
TypeSphere == 4
TypeCapsule == 16

RECURSIVE BitOr(_, _)
BitOr(x, y) ==
    IF x = 0 THEN y
    ELSE IF y = 0 THEN x
    ELSE (IF x % 2 = 1 \/ y % 2 = 1 THEN 1 ELSE 0) + 2 * BitOr(x \div 2, y \div 2)

NoVolume == [type |-> 0]

AABBVolume(half) ==
    [type |-> TypeAABB, offset |-> Zero3, halfDims |-> half, radius |-> 0, halfHeight |-> 0]
OBBVolume(half) ==
    [type |-> TypeOBB, offset |-> Zero3, halfDims |-> half, radius |-> 0, halfHeight |-> 0]
SphereVolume(r) ==
    [type |-> TypeSphere, offset |-> Zero3, halfDims |-> Zero3, radius |-> r, halfHeight |-> 0]
CapsuleVolume(hh, r) ==
    [type |-> TypeCapsule, offset |-> Zero3, halfDims |-> Zero3, radius |-> r, halfHeight |-> hh]

WithOffset(vol, off) == [vol EXCEPT !.offset = off]

----------------------------------------------------------------------------
(* CollisionInfo *)

NoObject == 0

\* a freshly constructed CollisionInfo
NewCollisionInfo ==
    [a |-> NoObject, b |-> NoObject,
     localA |-> Zero3, localB |-> Zero3, normal |-> Zero3, penetration |-> 0]

\* CollisionInfo::AddContactPoint
AddContactPoint(ci, localA, localB, normal, p) ==
    [ci EXCEPT !.localA = localA, !.localB = localB, !.normal = normal, !.penetration = p]

\* what a pairwise routine hands back: its return value and the manifold
Result(r, ci) == [ret |-> r, info |-> ci]

----------------------------------------------------------------------------
(* AABB / AABB *)

\* (a variant that asks for overlap on one axis only)
AABBTestAnyAxis(posA, posB, halfSizeA, halfSizeB) ==
    LET delta == VSub(posB, posA)
        totalSize == VAdd(halfSizeA, halfSizeB)
    IN  \/ Abs(delta[1]) < totalSize[1]
        \/ Abs(delta[2]) < totalSize[2]
        \/ Abs(delta[3]) < totalSize[3]

AABBTest(posA, posB, halfSizeA, halfSizeB) ==
    LET delta == VSub(posB, posA)
        totalSize == VAdd(halfSizeA, halfSizeB)
    IN  /\ Abs(delta[1]) < totalSize[1]
        /\ Abs(delta[2]) < totalSize[2]
        /\ Abs(delta[3]) < totalSize[3]

faces ==
    <<Vec(-One, 0, 0), Vec(One, 0, 0),
      Vec(0, -One, 0), Vec(0, One, 0),
      Vec(0, 0, -One), Vec(0, 0, One)>>

\* (a variant of the loop below that keeps the last of equal distances)
RECURSIVE BestFaceLast(_, _, _, _)
BestFaceLast(distances, i, penetration, bestAxis) ==
    IF i > 6 THEN [penetration |-> penetration, bestAxis |-> bestAxis]
    ELSE IF distances[i] <= penetration
         THEN BestFaceLast(distances, i + 1, distances[i], faces[i])
         ELSE BestFaceLast(distances, i + 1, penetration, bestAxis)

\* the loop over the six face distances, from index i with the best so far
RECURSIVE BestFace(_, _, _, _)
BestFace(distances, i, penetration, bestAxis) ==
    IF i > 6 THEN [penetration |-> penetration, bestAxis |-> bestAxis]
    ELSE IF distances[i] < penetration
         THEN BestFace(distances, i + 1, distances[i], faces[i])
         ELSE BestFace(distances, i + 1, penetration, bestAxis)

AABBIntersection(volumeA, worldTransformA, volumeB, worldTransformB, collisionInfo) ==
    LET boxAPos == VAdd(worldTransformA.position, volumeA.offset)
        boxBPos == VAdd(worldTransformB.position, volumeB.offset)
        boxASize == volumeA.halfDims
        boxBSize == volumeB.halfDims
        overlap == AABBTest(boxAPos, boxBPos, boxASize, boxBSize)
        maxA == VAdd(boxAPos, boxASize)
        minA == VSub(boxAPos, boxASize)
        maxB == VAdd(boxBPos, boxBSize)
        minB == VSub(boxBPos, boxBSize)
        distances ==
            <<maxB[1] - minA[1], maxA[1] - minB[1],
              maxB[2] - minA[2], maxA[2] - minB[2],
              maxB[3] - minA[3], maxA[3] - minB[3]>>
        best == BestFace(distances, 1, FLT_MAX, Zero3)
    IN  IF overlap
        THEN Result(TRUE, AddContactPoint(collisionInfo, Zero3, Zero3,
                                          best.bestAxis, best.penetration))
        ELSE Result(FALSE, collisionInfo)

----------------------------------------------------------------------------
(* Sphere / Sphere *)

\* (a variant that also reports spheres that only touch)
SphereIntersectionTouching(volumeA, worldTransformA, volumeB, worldTransformB, collisionInfo) ==
    LET radii == volumeA.radius + volumeB.radius
        delta == VSub(VAdd(worldTransformB.position, volumeB.offset),
                      VAdd(worldTransformA.position, volumeA.offset))
        deltaLength == Length(delta)
        normal == Normalised(delta)
    IN  IF deltaLength <= radii
        THEN Result(TRUE, AddContactPoint(collisionInfo, VScale(normal, volumeA.radius),
                                          VScale(VNeg(normal), volumeB.radius),
                                          normal, radii - deltaLength))
        ELSE Result(FALSE, collisionInfo)

SphereIntersection(volumeA, worldTransformA, volumeB, worldTransformB, collisionInfo) ==
    LET radii == volumeA.radius + volumeB.radius
        delta == VSub(VAdd(worldTransformB.position, volumeB.offset),
                      VAdd(worldTransformA.position, volumeA.offset))
        deltaLength == Length(delta)
        penetration == radii - deltaLength
        normal == Normalised(delta)
        localA == VScale(normal, volumeA.radius)
        localB == VScale(VNeg(normal), volumeB.radius)
    IN  IF deltaLength < radii
        THEN Result(TRUE, AddContactPoint(collisionInfo, localA, localB, normal, penetration))
        ELSE Result(FALSE, collisionInfo)

----------------------------------------------------------------------------
(* AABB / Sphere *)

AABBSphereIntersection(volumeA, worldTransformA, volumeB, worldTransformB, collisionInfo, useBoxPoint) ==
    LET boxSize == volumeA.halfDims
        delta == VSub(VAdd(worldTransformB.position, volumeB.offset),
                      VAdd(worldTransformA.position, volumeA.offset))
        closestPointOnBox == VClamp(delta, VNeg(boxSize), boxSize)
        localPoint == VSub(delta, closestPointOnBox)
        distance == Length(localPoint)
        collisionNormal == Normalised(localPoint)
        penetration == volumeB.radius - distance
        localA == VScale(VNeg(collisionNormal), volumeB.radius)
        localB == IF useBoxPoint THEN closestPointOnBox ELSE Zero3
    IN  IF distance < volumeB.radius
        THEN Result(TRUE, AddContactPoint(collisionInfo, localA, localB,
                                          collisionNormal, penetration))
        ELSE Result(FALSE, collisionInfo)

----------------------------------------------------------------------------------------------------------------------------------------------------
(* The routines below test a pair by handing a sphere built for the       *)
(* purpose to another routine, and then rework the contact it left in the *)
(* manifold, whatever it returned.  The rework is an operator on the      *)
(* result r of the inner routine.                                         *)

\* collisionInfo.point.localA = collisionInfo.point.localA + (spherePos - position + offset)
ShiftLocalA(r, spherePos, worldTransform, volume) ==
    Result(r.ret,
           [r.info EXCEPT
              !.localA = VAdd(@, VAdd(VSub(spherePos, worldTransform.position),
                                      volume.offset))])

ShiftLocalB(r, spherePos, worldTransform, volume) ==
    Result(r.ret,
           [r.info EXCEPT
              !.localB = VAdd(@, VAdd(VSub(spherePos, worldTransform.position),
                                      volume.offset))])

\* a sphere of the radius of volume, and its transform at p
SphereOf(volume) == SphereVolume(volume.radius)
SphereAt(volume, p) == TempTransform(p, Vec(volume.radius, volume.radius, volume.radius))

(* Sphere / OBB *)

\* the contact turned back to world orientation, the normal negated
SphereOBBBack(transform, r) ==
    Result(r.ret,
           [r.info EXCEPT !.localA = Rotate(transform, @),
                          !.localB = Rotate(transform, @),
                          !.normal = Rotate(transform, VNeg(@))])

SphereOBBIntersection(volumeA, worldTransformA, volumeB, worldTransformB, collisionInfo) ==
    LET orientation == worldTransformB.orientation
        invTransform == Conjugate(orientation)
    IN  SphereOBBBack(orientation,
            AABBSphereIntersection(
                AABBVolume(volumeB.halfDims),
                TempTransform(VAdd(Rotate(invTransform, worldTransformB.position),
                                   volumeB.offset),
                              volumeB.halfDims),
                SphereOf(volumeA),
                SphereAt(volumeA, VAdd(Rotate(invTransform, worldTransformA.position),
                                       volumeA.offset)),
                collisionInfo, TRUE))

----------------------------------------------------------------------------
(* Capsules *)

\* the ends of the capsule's segment: e is the half segment, c the centre
CapsuleEnd(capsule, capTransform, sign) ==
    LET extentPosition ==
            VScale(Rotate(capTransform.orientation, Vec(0, One, 0)),
                   capsule.halfHeight - capsule.radius)
        centre == VAdd(capTransform.position, capsule.offset)
    IN  IF sign > 0 THEN VAdd(centre, extentPosition) ELSE VSub(centre, extentPosition)

\* the point of the segment from capBottom along capsuleDir nearest otherObjPos
SpherePosOnLine(capBottom, capsuleDir0, otherObjPos) ==
    LET capLineLength == Length(capsuleDir0)
        capsuleDir == Normalised(capsuleDir0)
        pointCapDir == VSub(otherObjPos, capBottom)
    IN  VAdd(capBottom,
             VScale(capsuleDir, Clamp(Dot(pointCapDir, capsuleDir), 0, capLineLength)))

SpherePosBetween(capTop, capBottom, otherObjPos) ==
    SpherePosOnLine(capBottom, VSub(capTop, capBottom), otherObjPos)

SpherePosFromCapsule(capsule, capTransform, otherObjPos) ==
    SpherePosBetween(CapsuleEnd(capsule, capTransform, 1),
                     CapsuleEnd(capsule, capTransform, -1), otherObjPos)

ClosestPointOnSegment(a, ab, point) ==
    VAdd(a, VScale(ab, Clamp(FDiv(Dot(VSub(point, a), ab), Dot(ab, ab)), 0, One)))

ClosestPointOnLineSegment(a, b, point) == ClosestPointOnSegment(a, VSub(b, a), point)

\* Capsule / Capsule, from the closest points of the two segments on
CapsuleSpheres(volumeA, worldTransformA, volumeB, worldTransformB, collisionInfo, bestA, bestB) ==
    ShiftLocalB(
        ShiftLocalA(
            SphereIntersection(SphereOf(volumeA), SphereAt(volumeA, bestA),
                               SphereOf(volumeB), SphereAt(volumeB, bestB), collisionInfo),
            bestA, worldTransformA, volumeA),
        bestB, worldTransformB, volumeB)

\* bestB from the first guess at bestA, then bestA from bestB
CapsuleClosest(volumeA, worldTransformA, volumeB, worldTransformB, collisionInfo, capTopA, capBottomA, capTopB, capBottomB, bestB) ==
    CapsuleSpheres(volumeA, worldTransformA, volumeB, worldTransformB, collisionInfo,
                   ClosestPointOnLineSegment(capBottomA, capTopA, bestB), bestB)

\* the first guess at bestA: an end of A's segment, by the four distances
CapsuleFirst(capTopA, capBottomA, d0, d1, d2, d3) ==
    IF d2 < d0 \/ d2 < d1 \/ d3 < d0 \/ d3 < d1 THEN capTopA ELSE capBottomA

SqLen(v) == Dot(v, v)

CapsuleEnds(volumeA, worldTransformA, volumeB, worldTransformB, collisionInfo, capTopA, capBottomA, capTopB, capBottomB) ==
    CapsuleClosest(volumeA, worldTransformA, volumeB, worldTransformB, collisionInfo,
                   capTopA, capBottomA, capTopB, capBottomB,
                   ClosestPointOnLineSegment(
                       capBottomB, capTopB,
                       CapsuleFirst(capTopA, capBottomA,
                                    SqLen(VSub(capBottomB, capBottomA)),
                                    SqLen(VSub(capTopB, capBottomA)),
                                    SqLen(VSub(capBottomB, capTopA)),
                                    SqLen(VSub(capTopB, capTopA)))))

CapsuleIntersection(volumeA, worldTransformA, volumeB, worldTransformB, collisionInfo) ==
    CapsuleEnds(volumeA, worldTransformA, volumeB, worldTransformB, collisionInfo,
                CapsuleEnd(volumeA, worldTransformA, 1),
                CapsuleEnd(volumeA, worldTransformA, -1),
                CapsuleEnd(volumeB, worldTransformB, 1),
                CapsuleEnd(volumeB, worldTransformB, -1))

\* Capsule / OBB, from the sphere's position on
CapsuleOBBAt(volumeA, worldTransformA, volumeB, worldTransformB, collisionInfo, spherePos) ==
    ShiftLocalA(
        SphereOBBIntersection(SphereOf(volumeA), SphereAt(volumeA, spherePos),
                              volumeB, worldTransformB, collisionInfo),
        spherePos, worldTransformA, volumeA)

CapsuleOBBIntersection(volumeA, worldTransformA, volumeB, worldTransformB, collisionInfo) ==
    LET invTransform == Conjugate(worldTransformB.orientation)
        boxPos == VAdd(worldTransformB.position, volumeB.offset)
        point ==
            Rotate(worldTransformB.orientation,
                   VClamp(VAdd(Rotate(invTransform, worldTransformA.position), volumeA.offset),
                          VSub(boxPos, volumeB.halfDims),
                          VAdd(boxPos, volumeB.halfDims)))
    IN  CapsuleOBBAt(volumeA, worldTransformA, volumeB, worldTransformB, collisionInfo,
                     SpherePosFromCapsule(volumeA, worldTransformA, point))

\* Sphere / Capsule, from the sphere's position on
SphereCapsuleAt(volumeA, worldTransformA, volumeB, worldTransformB, collisionInfo, spherePos) ==
    ShiftLocalA(
        SphereIntersection(SphereOf(volumeA), SphereAt(volumeA, spherePos),
                           volumeB, worldTransformB, collisionInfo),
        spherePos, worldTransformA, volumeA)

SphereCapsuleIntersection(volumeA, worldTransformA, volumeB, worldTransformB, collisionInfo) ==
    SphereCapsuleAt(volumeA, worldTransformA, volumeB, worldTransformB, collisionInfo,
                    SpherePosFromCapsule(volumeA, worldTransformA,
                                         VAdd(worldTransformB.position, volumeB.offset)))

\* collisionInfo.point.normal = -collisionInfo.point.normal
NegateNormal(r) == Result(r.ret, [r.info EXCEPT !.normal = VNeg(@)])

\* AABB / Capsule, from the sphere's position on
AABBCapsuleAt(volumeA, worldTransformA, volumeB, worldTransformB, collisionInfo, spherePos) ==
    ShiftLocalA(
        NegateNormal(
            AABBSphereIntersection(volumeB, worldTransformB,
                                   SphereOf(volumeA), SphereAt(volumeA, spherePos),
                                   collisionInfo, FALSE)),
        spherePos, worldTransformA, volumeA)

AABBCapsuleIntersection(volumeA, worldTransformA, volumeB, worldTransformB, collisionInfo) ==
    LET boxPos == VAdd(worldTransformB.position, volumeB.offset)
        point ==
            VClamp(VAdd(worldTransformA.position, volumeA.offset),
                   VSub(boxPos, volumeB.halfDims),
                   VAdd(boxPos, volumeB.halfDims))
    IN  AABBCapsuleAt(volumeA, worldTransformA, volumeB, worldTransformB, collisionInfo,
                      SpherePosFromCapsule(volumeA, worldTransformA, point))

----
(* OBB / OBB: separating axes *)

OBBSupport(worldTransform, worldDir) ==
    LET localDir == Rotate(Conjugate(worldTransform.orientation), worldDir)
        vertex == <<IF localDir[1] < 0 THEN -Half ELSE Half,
                    IF localDir[2] < 0 THEN -Half ELSE Half,
                    IF localDir[3] < 0 THEN -Half ELSE Half>>
    IN  GetMatrixTimes(worldTransform, vertex)

\* the fifteen candidate axes
OBBDirections(worldTransformA, worldTransformB) ==
    LET ax == Rotate(worldTransformA.orientation, Vec(One, 0, 0))
        ay == Rotate(worldTransformA.orientation, Vec(0, One, 0))
        az == Rotate(worldTransformA.orientation, Vec(0, 0, One))
        bx == Rotate(worldTransformB.orientation, Vec(One, 0, 0))
        by == Rotate(worldTransformB.orientation, Vec(0, One, 0))
        bz == Rotate(worldTransformB.orientation, Vec(0, 0, One))
    IN  <<ax, ay, az, bx, by, bz,
          Cross(ax, bx), Cross(ax, by), Cross(ax, bz),
          Cross(ay, bx), Cross(ay, by), Cross(ay, bz),
          Cross(az, bx), Cross(az, by), Cross(az, bz)>>

\* 0.99f, below which the squared length of an axis has it skipped
AxisSkip == (99 * One) \div 100

\* One turn of the loop over the axes, on the loop's state
\* st = [leastPenetration, penIndex, info]; sep says the turn returned false.
\* The turn is written as a chain of operators, each handing the values it
\* computes to the next, so that every value is computed once.

\* (a variant of the branches below that takes an axis on which neither
\* left nor right is positive for a separating one)
OBBAxisPickSeparating(dir, i, st, minA, maxA, minB, maxB, left, right, length, distanceR, distanceL) ==
    IF right > 0 /\ distanceR <= length
    THEN IF length - distanceR < st.leastPenetration
         THEN [sep |-> FALSE,
               leastPenetration |-> length - distanceR,
               penIndex |-> i,
               info |-> [st.info EXCEPT !.localA = minA, !.localB = maxB,
                                        !.normal = VNeg(dir)]]
         ELSE [st EXCEPT !.sep = FALSE]
    ELSE IF left > 0 /\ distanceL <= length
    THEN IF length - distanceL < st.leastPenetration
         THEN [sep |-> FALSE,
               leastPenetration |-> length - distanceL,
               penIndex |-> i,
               info |-> [st.info EXCEPT !.localA = maxA, !.localB = minB,
                                        !.normal = dir]]
         ELSE [st EXCEPT !.sep = FALSE]
    ELSE [st EXCEPT !.sep = TRUE]

\* the three branches on left and right
OBBAxisPick(dir, i, st, minA, maxA, minB, maxB, left, right, length, distanceR, distanceL) ==
    IF right > 0 /\ distanceR <= length
    THEN IF length - distanceR < st.leastPenetration
         THEN [sep |-> FALSE,
               leastPenetration |-> length - distanceR,
               penIndex |-> i,
               info |-> [st.info EXCEPT !.localA = minA, !.localB = maxB,
                                        !.normal = VNeg(dir)]]
         ELSE [st EXCEPT !.sep = FALSE]
    ELSE IF left > 0 /\ distanceL <= length
    THEN IF length - distanceL < st.leastPenetration
         THEN [sep |-> FALSE,
               leastPenetration |-> length - distanceL,
               penIndex |-> i,
               info |-> [st.info EXCEPT !.localA = maxA, !.localB = minB,
                                        !.normal = dir]]
         ELSE [st EXCEPT !.sep = FALSE]
    ELSE IF left < 0 /\ right < 0
    THEN [st EXCEPT !.sep = FALSE, !.penIndex = i]
    ELSE [st EXCEPT !.sep = TRUE]

\* left, right and the lengths, from the projected extents
OBBAxisSides(dir, i, st, minA, maxA, minB, maxB, minExtentA, maxExtentA, minExtentB, maxExtentB) ==
    OBBAxisPick(dir, i, st, minA, maxA, minB, maxB,
                Dot(VSub(maxExtentA, minExtentA), VSub(minExtentB, minExtentA)),
                Dot(VSub(minExtentA, maxExtentA), VSub(maxExtentB, maxExtentA)),
                Length(VSub(maxExtentA, minExtentA)),
                Length(VSub(maxExtentB, maxExtentA)),
                Length(VSub(minExtentB, minExtentA)))

\* a support point projected on to the axis
OBBExtent(dir, p, denom) == VScale(dir, FDiv(Dot(p, dir), denom))

OBBAxisExtents(dir, i, st, minA, maxA, minB, maxB, denom) ==
    OBBAxisSides(dir, i, st, minA, maxA, minB, maxB,
                 OBBExtent(dir, minA, denom), OBBExtent(dir, maxA, denom),
                 OBBExtent(dir, minB, denom), OBBExtent(dir, maxB, denom))

OBBAxis(worldTransformA, worldTransformB, dir, i, st) ==
    OBBAxisExtents(dir, i, st,
                   OBBSupport(worldTransformA, VNeg(dir)), OBBSupport(worldTransformA, dir),
                   OBBSupport(worldTransformB, VNeg(dir)), OBBSupport(worldTransformB, dir),
                   Dot(dir, dir))

\* the loop from axis i on
RECURSIVE OBBLoop(_, _, _, _, _)
OBBNext(worldTransformA, worldTransformB, directions, i, nxt) ==
    IF nxt.sep THEN nxt
    ELSE OBBLoop(worldTransformA, worldTransformB, directions, i + 1, nxt)

OBBLoop(worldTransformA, worldTransformB, directions, i, st) ==
    IF i > 15 THEN st
    ELSE IF Dot(directions[i], directions[i]) < AxisSkip
         THEN OBBLoop(worldTransformA, worldTransformB, directions, i + 1, st)
         ELSE OBBNext(worldTransformA, worldTransformB, directions, i,
                      OBBAxis(worldTransformA, worldTransformB, directions[i], i, st))

\* after the loop
OBBFinish(volumeA, worldTransformA, volumeB, worldTransformB, st) ==
    IF st.sep
    THEN Result(FALSE, st.info)
    ELSE Result(TRUE,
                [st.info EXCEPT
                   !.penetration = st.leastPenetration,
                   !.localA = VSub(st.info.localA,
                                   VAdd(worldTransformA.position, volumeA.offset)),
                   !.localB = VSub(st.info.localB,
                                   VAdd(worldTransformB.position, volumeB.offset))])

OBBIntersection(volumeA, worldTransformA, volumeB, worldTransformB, collisionInfo) ==
    OBBFinish(volumeA, worldTransformA, volumeB, worldTransformB,
              OBBLoop(worldTransformA, worldTransformB,
                      OBBDirections(worldTransformA, worldTransformB), 1,
                      [sep |-> FALSE, leastPenetration |-> FLT_MAX, penIndex |-> -1,
                       info |-> collisionInfo]))

----------------------------------------------------------------------------
(* The dispatcher over pairs of objects: a and b index objs *)

HasVolume(o) == o.boundingVolume # NoVolume

\* (a variant of the assignment below that leaves body b as it was)
BodiesFirstOnly(collisionInfo, a, b) == [collisionInfo EXCEPT !.a = a]

\* collisionInfo.a = a; collisionInfo.b = b
Bodies(collisionInfo, a, b) == [collisionInfo EXCEPT !.a = a, !.b = b]

\* the choice of the routine by the kinds of the two volumes; ab is the
\* manifold with its bodies set to (a, b)
DispatchPair(volA, transformA, volB, transformB, a, b, ab) ==
    LET pairType == BitOr(volA.type, volB.type)
    IN  IF pairType = TypeAABB
        THEN AABBIntersection(volA, transformA, volB, transformB, ab)
        ELSE IF pairType = TypeSphere
        THEN SphereIntersection(volA, transformA, volB, transformB, ab)
        ELSE IF pairType = TypeOBB
        THEN OBBIntersection(volA, transformA, volB, transformB, ab)
        ELSE IF pairType = TypeCapsule
        THEN CapsuleIntersection(volA, transformA, volB, transformB, ab)
        ELSE IF volA.type = TypeAABB /\ volB.type = TypeSphere
        THEN AABBSphereIntersection(volA, transformA, volB, transformB, ab, FALSE)
        ELSE IF volA.type = TypeSphere /\ volB.type = TypeAABB
        THEN AABBSphereIntersection(volB, transformB, volA, transformA,
                                    Bodies(ab, b, a), FALSE)
        ELSE IF volA.type = TypeCapsule /\ volB.type = TypeSphere
        THEN SphereCapsuleIntersection(volA, transformA, volB, transformB, ab)
        ELSE IF volA.type = TypeSphere /\ volB.type = TypeCapsule
        THEN SphereCapsuleIntersection(volB, transformB, volA, transformA, Bodies(ab, b, a))
        ELSE IF volA.type = TypeCapsule /\ volB.type = TypeAABB
        THEN AABBCapsuleIntersection(volA, transformA, volB, transformB, ab)
        ELSE IF volA.type = TypeAABB /\ volB.type = TypeCapsule
        THEN AABBCapsuleIntersection(volB, transformB, volA, transformA, Bodies(ab, b, a))
        ELSE IF volA.type = TypeSphere /\ volB.type = TypeOBB
        THEN SphereOBBIntersection(volA, transformA, volB, transformB, ab)
        ELSE IF volA.type = TypeOBB /\ volB.type = TypeSphere
        THEN SphereOBBIntersection(volB, transformB, volA, transformA, Bodies(ab, b, a))
        ELSE IF volA.type = TypeCapsule /\ volB.type = TypeOBB
        THEN CapsuleOBBIntersection(volA, transformA, volB, transformB, ab)
        ELSE IF volA.type = TypeOBB /\ volB.type = TypeCapsule
        THEN CapsuleOBBIntersection(volB, transformB, volA, transformA, Bodies(ab, b, a))
        ELSE IF \/ volA.type = TypeAABB /\ volB.type = TypeOBB
                \/ volA.type = TypeOBB /\ volB.type = TypeAABB
        THEN OBBIntersection(volA, transformA, volB, transformB, ab)
        ELSE Result(FALSE, ab)

\* (a variant that sets the bodies before it looks for the volumes)
ObjectIntersectionBodiesFirst(os, a, b, collisionInfo) ==
    IF ~HasVolume(os[a]) \/ ~HasVolume(os[b])
    THEN Result(FALSE, Bodies(collisionInfo, a, b))
    ELSE DispatchPair(os[a].boundingVolume, os[a].transform,
                      os[b].boundingVolume, os[b].transform,
                      a, b, Bodies(collisionInfo, a, b))

ObjectIntersection(os, a, b, collisionInfo) ==
    IF ~HasVolume(os[a]) \/ ~HasVolume(os[b])
    THEN Result(FALSE, collisionInfo)
    ELSE DispatchPair(os[a].boundingVolume, os[a].transform,
                      os[b].boundingVolume, os[b].transform,
                      a, b, Bodies(collisionInfo, a, b))

----------------------------------------------------------------------------
(* Rays *)

Ray(p, d) == [position |-> p, direction |-> d]

\* a freshly constructed RayCollision
NewRayCollision == [collidedAt |-> Zero3, rayDistance |-> 0]

RayResult(r, c) == [ret |-> r, collision |-> c]

\* Plane::PlaneFromTri
PlaneFromTri(v0, v1, v2) ==
    LET normal == Normalised(Cross(VSub(v1, v0), VSub(v2, v0)))
    IN  [normal |-> normal, distance |-> -Dot(v0, normal)]

\* Plane::GetPointOnPlane
GetPointOnPlane(p) == VScale(p.normal, -p.distance)

RayPlaneIntersection(r, p, collisions) ==
    LET ln == Dot(p.normal, r.direction)
        planePoint == GetPointOnPlane(p)
        pointDir == VSub(planePoint, r.position)
        d == FDiv(Dot(pointDir, p.normal), ln)
    IN  IF ln = 0 THEN RayResult(FALSE, collisions)
        ELSE RayResult(TRUE,
                       [collisions EXCEPT
                          !.collidedAt = VAdd(r.position, VScale(r.direction, d))])

\* 0.0001f
RayEpsilon == One \div 10000

\* (a variant whose parameters start at 0 in place of -1)
RayBoxIntersectionFromZero(r, boxPos, boxSize, collision) ==
    LET boxMin == VSub(boxPos, boxSize)
        boxMax == VAdd(boxPos, boxSize)
        tVals == [i \in 1..3 |->
                    IF r.direction[i] > 0
                    THEN FDiv(boxMin[i] - r.position[i], r.direction[i])
                    ELSE IF r.direction[i] < 0
                    THEN FDiv(boxMax[i] - r.position[i], r.direction[i])
                    ELSE 0]
        bestT == GetMaxElement(tVals)
        intersection == VAdd(r.position, VScale(r.direction, bestT))
    IN  IF bestT < 0 THEN RayResult(FALSE, collision)
        ELSE IF \E i \in 1..3 :
                   \/ intersection[i] + RayEpsilon < boxMin[i]
                   \/ intersection[i] - RayEpsilon > boxMax[i]
        THEN RayResult(FALSE, collision)
        ELSE RayResult(TRUE, [collidedAt |-> intersection, rayDistance |-> bestT])

RayBoxIntersection(r, boxPos, boxSize, collision) ==
    LET boxMin == VSub(boxPos, boxSize)
        boxMax == VAdd(boxPos, boxSize)
        rayPos == r.position
        rayDir == r.direction
        tVals == [i \in 1..3 |->
                    IF rayDir[i] > 0 THEN FDiv(boxMin[i] - rayPos[i], rayDir[i])
                    ELSE IF rayDir[i] < 0 THEN FDiv(boxMax[i] - rayPos[i], rayDir[i])
                    ELSE -One]
        bestT == GetMaxElement(tVals)
        intersection == VAdd(rayPos, VScale(rayDir, bestT))
        epsilon == RayEpsilon
    IN  IF bestT < 0 THEN RayResult(FALSE, collision)
        ELSE IF \E i \in 1..3 :
                   \/ intersection[i] + epsilon < boxMin[i]
                   \/ intersection[i] - epsilon > boxMax[i]
        THEN RayResult(FALSE, collision)
        ELSE RayResult(TRUE, [collidedAt |-> intersection, rayDistance |-> bestT])

RayAABBIntersection(r, worldTransform, volume, collision) ==
    LET boxPos == VAdd(worldTransform.position, volume.offset)
        boxSize == volume.halfDims
    IN  RayBoxIntersection(r, boxPos, boxSize, collision)

RayOBBIntersection(r, worldTransform, volume, collision) ==
    LET orientation == worldTransform.orientation
        position == VAdd(worldTransform.position, volume.offset)
        transform == orientation
        invTransform == Conjugate(orientation)
        localRayPos == VSub(r.position, position)
        tempRay == Ray(Rotate(invTransform, localRayPos), Rotate(invTransform, r.direction))
        res == RayBoxIntersection(tempRay, Zero3, volume.halfDims, collision)
    IN  IF res.ret
        THEN RayResult(TRUE,
                       [res.collision EXCEPT
                          !.collidedAt = VAdd(Rotate(transform, res.collision.collidedAt),
                                              position)])
        ELSE res

\* (a variant that lets a grazing ray pass)
RaySphereIntersectionInside(r, worldTransform, volume, collision) ==
    LET spherePos == VAdd(worldTransform.position, volume.offset)
        sphereProj == Dot(VSub(spherePos, r.position), r.direction)
        sphereDist == Length(VSub(VAdd(r.position, VScale(r.direction, sphereProj)),
                                  spherePos))
        rayDistance == sphereProj - FSqrt(FMul(volume.radius, volume.radius)
                                          - FMul(sphereDist, sphereDist))
    IN  IF sphereProj < 0 \/ sphereDist >= volume.radius
        THEN RayResult(FALSE, collision)
        ELSE RayResult(TRUE,
                       [collidedAt |-> VAdd(r.position, VScale(r.direction, rayDistance)),
                        rayDistance |-> rayDistance])

RaySphereIntersection(r, worldTransform, volume, collision) ==
    LET spherePos == VAdd(worldTransform.position, volume.offset)
        sphereRadius == volume.radius
        dir == VSub(spherePos, r.position)
        sphereProj == Dot(dir, r.direction)
        point == VAdd(r.position, VScale(r.direction, sphereProj))
        sphereDist == Length(VSub(point, spherePos))
        offset == FSqrt(FMul(sphereRadius, sphereRadius) - FMul(sphereDist, sphereDist))
        rayDistance == sphereProj - offset
    IN  IF sphereProj < 0 THEN RayResult(FALSE, collision)
        ELSE IF sphereDist > sphereRadius THEN RayResult(FALSE, collision)
        ELSE RayResult(TRUE,
                       [collidedAt |-> VAdd(r.position, VScale(r.direction, rayDistance)),
                        rayDistance |-> rayDistance])

RayCapsuleIntersection(r, worldTransform, volume, collision) ==
    LET centre == VAdd(worldTransform.position, volume.offset)
        ext == VScale(Rotate(worldTransform.orientation, Vec(0, One, 0)),
                      volume.halfHeight - volume.radius)
        top == VAdd(centre, ext)
        bottom == VSub(centre, ext)
        normal == VSub(r.position, centre)
        capsuleDir0 == VSub(top, bottom)
        point == VAdd(centre, VScale(Normalised(Cross(capsuleDir0, normal)), One))
        capPlane == PlaneFromTri(top, bottom, point)
        pl == RayPlaneIntersection(r, capPlane, collision)
        capsuleLineLength == Length(capsuleDir0)
        capsuleDir == Normalised(capsuleDir0)
        rayCapDir == VSub(pl.collision.collidedAt, bottom)
        dot == Clamp(Dot(rayCapDir, capsuleDir), 0, capsuleLineLength)
        spherePos == VAdd(bottom, VScale(capsuleDir, dot))
        sphere == SphereVolume(volume.radius)
        t == TempTransform(spherePos, Vec(volume.radius, volume.radius, volume.radius))
    IN  IF ~pl.ret THEN pl
        ELSE RaySphereIntersection(r, t, sphere, pl.collision)

\* the dispatcher over one object: object indexes objs
RayIntersection(os, r, object, collision) ==
    LET worldTransform == os[object].transform
        volume == os[object].boundingVolume
    IN  IF ~HasVolume(os[object]) THEN RayResult(FALSE, collision)
        ELSE IF volume.type = TypeAABB
        THEN RayAABBIntersection(r, worldTransform, volume, collision)
        ELSE IF volume.type = TypeOBB
        THEN RayOBBIntersection(r, worldTransform, volume, collision)
        ELSE IF volume.type = TypeSphere
        THEN RaySphereIntersection(r, worldTransform, volume, collision)
        ELSE IF volume.type = TypeCapsule
        THEN RayCapsuleIntersection(r, worldTransform, volume, collision)
        ELSE RayResult(FALSE, collision)

----------------------------------------------------------------------------
(* CollisionInfo::operator<: size_t arithmetic, sixty-four bits held as    *)
(* four sixteen-bit limbs, the lowest first                                *)

Limb == 65536

\* (size_t) of an int: sign extension
ToSizeT(id) ==
    <<id % Limb,
      (id \div Limb) % Limb,
      IF id < 0 THEN Limb - 1 ELSE 0,
      IF id < 0 THEN Limb - 1 ELSE 0>>

\* x << 32
Shl32(x) == <<0, 0, x[1], x[2]>>

\* x + y modulo 2^64
Add64(x, y) ==
    LET s1 == x[1] + y[1]
        s2 == x[2] + y[2] + s1 \div Limb
        s3 == x[3] + y[3] + s2 \div Limb
        s4 == x[4] + y[4] + s3 \div Limb
    IN  <<s1 % Limb, s2 % Limb, s3 % Limb, s4 % Limb>>

\* (a variant: x <= y)
Less64OrEqual(x, y) ==
    \/ x[4] < y[4]
    \/ x[4] = y[4] /\ x[3] < y[3]
    \/ x[4] = y[4] /\ x[3] = y[3] /\ x[2] < y[2]
    \/ x[4] = y[4] /\ x[3] = y[3] /\ x[2] = y[2] /\ x[1] <= y[1]

\* x < y
Less64(x, y) ==
    \/ x[4] < y[4]
    \/ x[4] = y[4] /\ x[3] < y[3]
    \/ x[4] = y[4] /\ x[3] = y[3] /\ x[2] < y[2]
    \/ x[4] = y[4] /\ x[3] = y[3] /\ x[2] = y[2] /\ x[1] < y[1]

\* (a variant of the key below that takes the lower world id first)
HashLowerFirst(os, ci) ==
    IF os[ci.a].worldID <= os[ci.b].worldID
    THEN Add64(ToSizeT(os[ci.a].worldID), Shl32(ToSizeT(os[ci.b].worldID)))
    ELSE Add64(ToSizeT(os[ci.b].worldID), Shl32(ToSizeT(os[ci.a].worldID)))

\* the key of a manifold: (size_t)a->GetWorldID() + ((size_t)b->GetWorldID() << 32)
Hash(os, ci) == Add64(ToSizeT(os[ci.a].worldID), Shl32(ToSizeT(os[ci.b].worldID)))

\* this < other
OperatorLess(os, this, other) ==
    LET otherHash == Hash(os, other)
        thisHash == Hash(os, this)
    IN  IF Less64(thisHash, otherHash) THEN TRUE ELSE FALSE

----------------------------------------------------------------------------
(* GameObject *)

\* GameObject::GameObject: worldID = -1, boundingVolume = nullptr
NewGameObject ==
    [worldID |-> -1, boundingVolume |-> NoVolume,
     transform |-> Transform(Zero3, RotId, Vec(One, One, One))]

\* a constructed object given a volume, a pose and a world id
GameObject(id, vol, t) == [worldID |-> id, boundingVolume |-> vol, transform |-> t]

----------------------------------------------------------------------------
(* The inputs *)

MaxSize == 2     \* extents and radii are 1..MaxSize halves
MaxCoord == 3    \* the second object lies within MaxCoord halves along x
MaxID == 2       \* world ids are -1..MaxID, and one beyond sixteen bits
MaxAnchor == 3   \* a manifold whose anchors lie beyond MaxAnchor units is not reused

Sizes == {k * Half : k \in 1..MaxSize}
BoxDims == {Vec(s, s, s) : s \in Sizes} \cup {Vec(Half, One, One)}
Orientations == {RotId, RotZ}

\* a volume with the orientation and scale of the object that carries it
Shape(vol, q, s) == [vol |-> vol, q |-> q, s |-> s]

Shapes ==
    {Shape(NoVolume, RotId, Vec(One, One, One))}
    \cup {Shape(AABBVolume(d), RotId, VAdd(d, d)) : d \in BoxDims}
    \cup {Shape(OBBVolume(d), q, VAdd(d, d)) : d \in BoxDims, q \in Orientations}
    \cup {Shape(SphereVolume(r), RotId, Vec(r, r, r)) : r \in Sizes}
    \cup {Shape(CapsuleVolume(Half + h, Half), q, Vec(One, One, One)) :
            h \in Sizes, q \in Orientations}

\* the same, the spheres and the axis-aligned boxes also off their object's origin
OffsetShapes ==
    Shapes \cup
    {Shape(WithOffset(sh.vol, Vec(Half, 0, 0)), sh.q, sh.s) :
        sh \in {x \in Shapes : x.vol.type \in {TypeAABB, TypeSphere}}}

\* where the second object may lie: level with the first or half a unit
\* above it; the last position is far from everything
Rises == {0, Half}
Positions ==
    {Vec(x * Half, y, 0) : x \in -MaxCoord..MaxCoord, y \in Rises}
    \cup {Vec(0, Half, Half), Vec(10 * One, 0, 0)}

Place(id, sh, p) == GameObject(id, sh.vol, Transform(p, sh.q, sh.s))

\* a manifold a solver has used before
StaleInfo ==
    [a |-> 2, b |-> 1,
     localA |-> Vec(Half, 0, 0), localB |-> Vec(0, -Half, 0),
     normal |-> Vec(0, One, 0), penetration |-> Half \div 2]

\* last: the operation called last, the objects of the last pair query, the
\* ray and the object of the last ray query
NoCall == [op |-> "none", a |-> 0, b |-> 0, ray |-> Ray(Zero3, Zero3), object |-> 0]

Rays ==
    {Ray(Vec(-5 * One, 0, 0), Vec(One, 0, 0)),
     Ray(Vec(0, 5 * One, 0), Vec(0, -One, 0)),
     Ray(Vec(-3 * One, -4 * One, 0), Vec((3 * One) \div 5, (4 * One) \div 5, 0))}

QueryRays == {r \in Rays : r.direction[1] = 0 \/ r.direction[2] = 0}

----------------------------------------------------------------------------
(* The calls *)

\* The rework of the contact after a test that failed makes the anchors of a
\* manifold handed to one query after another grow without end: the caller
\* here stops reusing a manifold whose anchors have left the scene.
Reusable(ci) ==
    \A i \in 1..3 : Abs(ci.localA[i]) <= MaxAnchor * One /\ Abs(ci.localB[i]) <= MaxAnchor * One

\* the caller's manifold and the returned flag after a call that handed back r
Returned(r) == info' = r.info /\ hit' = r.ret

ObjectIntersectionCall(a, b) ==
    /\ Reusable(info)
    /\ Returned(ObjectIntersection(objs, a, b, info))
    /\ last' = [last EXCEPT !.op = "ObjectIntersection", !.a = a, !.b = b]
    /\ UNCHANGED <<objs, rayColl, rayHit, cols, less>>

RayReturned(res) == rayColl' = res.collision /\ rayHit' = res.ret

RayIntersectionCall(r, object) ==
    /\ RayReturned(RayIntersection(objs, r, object, rayColl))
    /\ last' = [last EXCEPT !.op = "RayIntersection", !.ray = r, !.object = object]
    /\ UNCHANGED <<objs, info, hit, cols, less>>

\* every comparison among the manifolds of cols
CompareCall ==
    /\ less' = [i \in 1..Len(cols) |->
                  [j \in 1..Len(cols) |-> OperatorLess(objs, cols[i], cols[j])]]
    /\ last' = [NoCall EXCEPT !.op = "operator<"]
    /\ UNCHANGED <<objs, info, hit, rayColl, rayHit, cols>>

----------------------------------------------------------------------------
(* Pair queries on two placed objects *)

Init ==
    /\ \E sa \in OffsetShapes, sb \in Shapes, p \in Positions :
          objs = <<Place(1, sa, Zero3), Place(2, sb, p)>>
    /\ info = NewCollisionInfo
    /\ hit = FALSE
    /\ rayColl = NewRayCollision
    /\ rayHit = FALSE
    /\ last = NoCall
    /\ cols = <<>>
    /\ less = <<>>

Next == \E a \in 1..2, b \in 1..2 : a # b /\ ObjectIntersectionCall(a, b)

Spec == Init /\ [][Next]_vars

(* Pair and ray queries on a few objects *)

InitQuery ==
    /\ \E sa \in Shapes, sb \in Shapes :
          objs = <<Place(1, sa, Zero3), Place(2, sb, Vec(Half, Half, 0))>>
    /\ info \in {NewCollisionInfo, StaleInfo}
    /\ hit = FALSE
    /\ rayColl = NewRayCollision
    /\ rayHit = FALSE
    /\ last = NoCall
    /\ cols = <<>>
    /\ less = <<>>

NextQuery ==
    \/ \E a \in 1..2, b \in 1..2 : a # b /\ ObjectIntersectionCall(a, b)
    \/ \E r \in QueryRays, object \in 1..2 : RayIntersectionCall(r, object)

SpecQuery == InitQuery /\ [][NextQuery]_vars

(* Ordering manifolds of three objects *)

IDs == (-1..MaxID) \cup {Limb + 1}
Pairs == {<<a, b>> \in (1..3) \X (1..3) : TRUE}
PairOrd(p) == 3 * p[1] + p[2]

InitOrder ==
    /\ \E ids \in [1..3 -> IDs] :
          objs = [i \in 1..3 |-> [NewGameObject EXCEPT !.worldID = ids[i]]]
    /\ \E p \in Pairs, q \in Pairs, r \in Pairs :
          /\ PairOrd(p) < PairOrd(q) /\ PairOrd(q) < PairOrd(r)
          /\ cols = <<[NewCollisionInfo EXCEPT !.a = p[1], !.b = p[2]],
                      [NewCollisionInfo EXCEPT !.a = q[1], !.b = q[2]],
                      [NewCollisionInfo EXCEPT !.a = r[1], !.b = r[2]]>>
    /\ info = NewCollisionInfo
    /\ hit = FALSE
    /\ rayColl = NewRayCollision
    /\ rayHit = FALSE
    /\ last = NoCall
    /\ less = <<>>

NextOrder == CompareCall

SpecOrder == InitOrder /\ [][NextOrder]_vars

----------------------------------------------------------------------------
(* What the claims speak of *)

\* the last call was a pair query, on the objects X (first) and Y (second)
PairCalled == last.op = "ObjectIntersection"
X == objs[last.a]
Y == objs[last.b]
BothVolumes == HasVolume(X) /\ HasVolume(Y)
Kinds(t, u) == X.boundingVolume.type = t /\ Y.boundingVolume.type = u

\* the centre of an object's volume: pose position + volume offset
Centre(o) == VAdd(o.transform.position, o.boundingVolume.offset)

Collided == PairCalled /\ hit

----------------------------------------------------------------------------
\* C1: ObjectIntersection(A, B) and ObjectIntersection(B, A) return the same
\* flag, and when they collide the two manifolds have equal penetration and
\* opposite normals.  Stated of a query followed by the query with the
\* arguments exchanged.
C1_Symmetry ==
    [][(/\ last.op = "ObjectIntersection"
        /\ last'.op = "ObjectIntersection"
        /\ last'.a = last.b /\ last'.b = last.a)
       => /\ hit' = hit
          /\ hit => /\ info'.penetration = info.penetration
                    /\ info'.normal = VNeg(info.normal)]_vars

\* C2: whenever a pair query returns true, the penetration written is >= 0.
C2_PenetrationNonNegative == Collided => info.penetration >= 0

C2_Witness ==
    /\ Collided /\ Kinds(TypeOBB, TypeOBB)
    /\ info.penetration > 0 /\ info.penetration < FLT_MAX

\* a length is 1 within a hundredth
UnitLength(v) == Abs(Length(v) - One) <= One \div 100

\* C3: whenever a pair query returns true, the normal has length 1 (and so
\* is not the zero vector).
C3_UnitNormal == Collided => UnitLength(info.normal)

\* C4: whenever a pair query returns true, the normal points from the
\* manifold's body a toward its body b.
C4_NormalFromAToB ==
    Collided =>
        Dot(info.normal, VSub(Centre(objs[info.b]), Centre(objs[info.a]))) >= 0

\* the ordered kind pairs the dispatcher hands over with the objects exchanged
Exchanged ==
    \/ Kinds(TypeSphere, TypeAABB)
    \/ Kinds(TypeSphere, TypeCapsule)
    \/ Kinds(TypeAABB, TypeCapsule)
    \/ Kinds(TypeOBB, TypeSphere)
    \/ Kinds(TypeOBB, TypeCapsule)

\* C5: after a pair query on two objects with volumes, the manifold's bodies
\* are the two objects: (Y, X) for the kind pairs handed over exchanged,
\* (X, Y) for the others.
C5_Bodies ==
    (PairCalled /\ BothVolumes) =>
        IF Exchanged THEN info.a = last.b /\ info.b = last.a
                     ELSE info.a = last.a /\ info.b = last.b

C5_Witness ==
    /\ PairCalled /\ Kinds(TypeOBB, TypeCapsule)
    /\ info.a = last.b /\ info.b = last.a /\ last.a # last.b

----------------------------------------------------------------------------
\* C6: a pair query on an object without a volume, and a ray query on an
\* object without a volume, return false and leave the caller's record (the
\* manifold with its bodies, the ray collision) as it was.
C6_MissingVolume ==
    [][/\ (/\ last'.op = "ObjectIntersection"
           /\ (~HasVolume(objs[last'.a]) \/ ~HasVolume(objs[last'.b])))
          => (hit' = FALSE /\ info' = info)
       /\ (/\ last'.op = "RayIntersection"
           /\ ~HasVolume(objs[last'.object]))
          => (rayHit' = FALSE /\ rayColl' = rayColl)]_vars

\* both queries have met a missing volume while holding a used record
C6_Witness ==
    /\ last.op = "ObjectIntersection" /\ ~BothVolumes
    /\ ~hit /\ info = StaleInfo
    /\ last.object # 0 /\ ~HasVolume(objs[last.object])
    /\ ~rayHit /\ rayColl # NewRayCollision

----------------------------------------------------------------------------
\* the square of the distance between two points, not rounded
SquareDistance(p, q) ==
    (q[1] - p[1]) * (q[1] - p[1]) + (q[2] - p[2]) * (q[2] - p[2])
        + (q[3] - p[3]) * (q[3] - p[3])

SumOfRadii == X.boundingVolume.radius + Y.boundingVolume.radius

\* C7: a query on two spheres returns true exactly when the distance of the
\* centres is strictly less than the sum of the radii, and the penetration
\* is then that sum less the distance; spheres of radius 1 ten apart do not
\* collide, spheres of radius 1 at 1.5 apart collide with penetration 0.5.
C7_Spheres ==
    (PairCalled /\ Kinds(TypeSphere, TypeSphere)) =>
        /\ hit <=> SquareDistance(Centre(X), Centre(Y)) < SumOfRadii * SumOfRadii
        /\ hit => info.penetration
                    = SumOfRadii - Length(VSub(Centre(Y), Centre(X)))
        /\ (SumOfRadii = 2 * One /\ VSub(Centre(Y), Centre(X)) = Vec(10 * One, 0, 0))
              => ~hit
        /\ (SumOfRadii = 2 * One /\ VSub(Centre(Y), Centre(X)) = Vec(3 * Half, 0, 0))
              => hit /\ info.penetration = Half

C7_Witness ==
    /\ PairCalled /\ Kinds(TypeSphere, TypeSphere)
    /\ X.boundingVolume.radius = One /\ Y.boundingVolume.radius = One
    /\ VSub(Centre(Y), Centre(X)) = Vec(3 * Half, 0, 0)
    /\ hit /\ info.penetration = Half /\ info.normal = Vec(One, 0, 0)

----------------------------------------------------------------------------
\* the six face distances of two boxes, in the order -x, +x, -y, +y, -z, +z
FaceDistances(cA, hA, cB, hB) ==
    <<(cB[1] + hB[1]) - (cA[1] - hA[1]), (cA[1] + hA[1]) - (cB[1] - hB[1]),
      (cB[2] + hB[2]) - (cA[2] - hA[2]), (cA[2] + hA[2]) - (cB[2] - hB[2]),
      (cB[3] + hB[3]) - (cA[3] - hA[3]), (cA[3] + hA[3]) - (cB[3] - hB[3])>>

\* k is the first index at which d is least
FirstLeast(d, k) ==
    /\ \A j \in 1..6 : d[k] <= d[j]
    /\ \A j \in 1..(k - 1) : d[j] # d[k]

AxesOverlap(cA, hA, cB, hB) ==
    \A i \in 1..3 : Abs(cB[i] - cA[i]) < hA[i] + hB[i]

BoxManifold(d) ==
    \E k \in 1..6 :
        /\ FirstLeast(d, k)
        /\ info.penetration = d[k]
        /\ info.normal = faces[k]
        /\ info.localA = Zero3 /\ info.localB = Zero3

UnitBoxes ==
    /\ X.boundingVolume.halfDims = Vec(One, One, One)
    /\ Y.boundingVolume.halfDims = Vec(One, One, One)
    /\ Centre(X) = Zero3 /\ Centre(Y) = Vec(Half, 0, 0)

\* C8: a query on two axis-aligned boxes returns true exactly when the
\* centres differ by less than the sum of the half-extents on all three axes;
\* the penetration is then the least of the six face distances, the normal
\* the face normal of the first least one in the order -x,+x,-y,+y,-z,+z, and
\* both anchors are zero.  Unit boxes at the origin and at (0.5,0,0) give
\* penetration 1.5 and normal (1,0,0).
C8_Boxes ==
    (PairCalled /\ Kinds(TypeAABB, TypeAABB)) =>
        /\ hit <=> AxesOverlap(Centre(X), X.boundingVolume.halfDims,
                               Centre(Y), Y.boundingVolume.halfDims)
        /\ hit => BoxManifold(FaceDistances(Centre(X), X.boundingVolume.halfDims,
                                            Centre(Y), Y.boundingVolume.halfDims))
        /\ UnitBoxes => /\ hit
                        /\ info.penetration = 3 * Half
                        /\ info.normal = Vec(One, 0, 0)

C8_Witness ==
    /\ PairCalled /\ Kinds(TypeAABB, TypeAABB) /\ UnitBoxes
    /\ hit /\ info.penetration = 3 * Half /\ info.normal = Vec(One, 0, 0)
    /\ info.localA = Zero3 /\ info.localB = Zero3

----------------------------------------------------------------------------
Compared == last.op = "operator<"
Manifolds == 1..Len(cols)
IDOf(o) == objs[o].worldID

\* C9: operator< is a strict weak ordering of manifolds with distinct body
\* pairs: never m < m; m1 < m2 and m2 < m3 give m1 < m3; and being ordered
\* neither way is transitive.  World ids include the default -1.
C9_StrictWeakOrdering ==
    Compared =>
        /\ \A i \in Manifolds : ~less[i][i]
        /\ \A i, j, k \in Manifolds : (less[i][j] /\ less[j][k]) => less[i][k]
        /\ \A i, j, k \in Manifolds :
              (~less[i][j] /\ ~less[j][i] /\ ~less[j][k] /\ ~less[k][j])
                  => (~less[i][k] /\ ~less[k][i])

C9_Witness ==
    /\ Compared
    /\ \E i, j, k \in Manifolds :
          /\ less[i][j] /\ less[j][k] /\ less[i][k]
          /\ IDOf(cols[i].b) = -1 /\ IDOf(cols[k].a) = -1

\* manifolds i and j hold the same two bodies, exchanged
Exchange(i, j) == cols[i].a = cols[j].b /\ cols[i].b = cols[j].a /\ i # j

\* C10 as stated: the key puts the lower identifier first, so a manifold
\* (a=X, b=Y) and a manifold (a=Y, b=X) are ordered neither way.
C10_KeyIgnoresOrder ==
    Compared =>
        \A i, j \in Manifolds : Exchange(i, j) => (~less[i][j] /\ ~less[j][i])

\* C10, amended: the key is idA + (idB << 32) in the manifold's own body
\* order; manifolds (a=X, b=Y) and (a=Y, b=X) are ordered neither way exactly
\* when X and Y bear the same identifier, and otherwise exactly one of them is
\* less than the other.
C10_KeyFollowsOrder ==
    Compared =>
        \A i, j \in Manifolds :
            Exchange(i, j) =>
                IF IDOf(cols[i].a) = IDOf(cols[i].b)
                THEN ~less[i][j] /\ ~less[j][i]
                ELSE less[i][j] # less[j][i]

C10_Witness ==
    /\ Compared
    /\ \E i, j \in Manifolds :
          /\ Exchange(i, j)
          /\ IDOf(cols[i].a) < IDOf(cols[i].b)
          /\ less[i][j] /\ ~less[j][i]

----------------------------------------------------------------------------
(* Ray queries on one placed object *)

\* rays from outside along x, -y and a slant; from the origin, inside what
\* lies there; from beyond, pointing away; grazing at height 1; and one with
\* no direction
RayInputs ==
    Rays \cup
    {Ray(Zero3, Vec(One, 0, 0)),
     Ray(Vec(5 * One, 0, 0), Vec(One, 0, 0)),
     Ray(Vec(-5 * One, One, 0), Vec(One, 0, 0)),
     Ray(Vec(-5 * One, 0, 0), Zero3)}

RayPositions == {Zero3, Vec(Half, Half, 0), Vec(0, 5 * One, 0)}

\* a record a caller has used before
StaleRayCollision == [collidedAt |-> Vec(One, One, One), rayDistance |-> 7 * One]

InitRay ==
    /\ \E sh \in OffsetShapes, p \in RayPositions : objs = <<Place(1, sh, p)>>
    /\ rayColl \in {NewRayCollision, StaleRayCollision}
    /\ rayHit = FALSE
    /\ info = NewCollisionInfo
    /\ hit = FALSE
    /\ last = NoCall
    /\ cols = <<>>
    /\ less = <<>>

NextRay == \E r \in RayInputs : RayIntersectionCall(r, 1)

SpecRay == InitRay /\ [][NextRay]_vars

\* the last call was a ray query, with ray R on the object Target
RayCalled == last.op = "RayIntersection"
R == last.ray
Target == objs[last.object]
TargetKind(t) == Target.boundingVolume.type = t
RayHit == RayCalled /\ rayHit

\* the point of ray r at parameter t
PointAt(r, t) == VAdd(r.position, VScale(r.direction, t))

----------------------------------------------------------------------------
\* the projection of (centre - origin) on to the direction of r
Projection(r, centre) == Dot(VSub(centre, r.position), r.direction)

\* the distance of the projected point from the centre
Perpendicular(r, centre) ==
    Length(VSub(PointAt(r, Projection(r, centre)), centre))

HalfChord(radius, perp) == FSqrt(FMul(radius, radius) - FMul(perp, perp))

UnitSphereAt(c) ==
    /\ TargetKind(TypeSphere)
    /\ Target.boundingVolume.radius = One /\ Centre(Target) = c

FromMinusFive == R = Ray(Vec(-5 * One, 0, 0), Vec(One, 0, 0))

\* C11: a ray query on a sphere reports a hit exactly when the projection of
\* (centre - origin) on the direction is >= 0 and the projected point lies
\* within the radius of the centre; rayDistance is then the projection less
\* sqrt(radius^2 - perpendicular^2).  The ray from (-5,0,0) along +x hits the
\* unit sphere at the origin at distance 4, point (-1,0,0), and misses the
\* unit sphere at (0,5,0).
C11_RaySphere ==
    (RayCalled /\ TargetKind(TypeSphere)) =>
        /\ rayHit <=> /\ Projection(R, Centre(Target)) >= 0
                      /\ Perpendicular(R, Centre(Target)) <= Target.boundingVolume.radius
        /\ rayHit => rayColl.rayDistance
                       = Projection(R, Centre(Target))
                         - HalfChord(Target.boundingVolume.radius,
                                     Perpendicular(R, Centre(Target)))
        /\ (FromMinusFive /\ UnitSphereAt(Zero3))
              => /\ rayHit
                 /\ rayColl.rayDistance = 4 * One
                 /\ rayColl.collidedAt = Vec(-One, 0, 0)
        /\ (FromMinusFive /\ UnitSphereAt(Vec(0, 5 * One, 0))) => ~rayHit

C11_Witness ==
    /\ RayCalled /\ FromMinusFive /\ UnitSphereAt(Zero3)
    /\ rayHit /\ rayColl.rayDistance = 4 * One /\ rayColl.collidedAt = Vec(-One, 0, 0)

----------------------------------------------------------------------------
TargetIsBox == TargetKind(TypeAABB) \/ TargetKind(TypeOBB)

\* the ray as the slab test sees it: as given for an axis-aligned box, in the
\* box's own frame for an oriented one
SlabRay ==
    IF TargetKind(TypeAABB) THEN R
    ELSE Ray(Rotate(Conjugate(Target.transform.orientation),
                    VSub(R.position, Centre(Target))),
             Rotate(Conjugate(Target.transform.orientation), R.direction))

SlabCentre == IF TargetKind(TypeAABB) THEN Centre(Target) ELSE Zero3
SlabMin == VSub(SlabCentre, Target.boundingVolume.halfDims)
SlabMax == VAdd(SlabCentre, Target.boundingVolume.halfDims)

\* a point of the slab test, in the world
FromSlab(p) ==
    IF TargetKind(TypeAABB) THEN p
    ELSE VAdd(Rotate(Target.transform.orientation, p), Centre(Target))

\* the near-face parameter on axis i; -1 where the ray does not move
NearFace(i) ==
    IF SlabRay.direction[i] > 0
    THEN FDiv(SlabMin[i] - SlabRay.position[i], SlabRay.direction[i])
    ELSE IF SlabRay.direction[i] < 0
    THEN FDiv(SlabMax[i] - SlabRay.position[i], SlabRay.direction[i])
    ELSE -One

Entry == Max(NearFace(1), Max(NearFace(2), NearFace(3)))

WithinBox(p) ==
    \A i \in 1..3 : p[i] + RayEpsilon >= SlabMin[i] /\ p[i] - RayEpsilon <= SlabMax[i]

StrictlyInside(p) == \A i \in 1..3 : SlabMin[i] < p[i] /\ p[i] < SlabMax[i]

\* C12: the slab test takes the greatest of the three near-face parameters
\* (-1 on an axis the ray does not move along); it reports no hit when that
\* is negative, as it is for every origin strictly inside the box and for a
\* ray without direction, or when the point at that parameter lies outside
\* the box by more than the tolerance; otherwise it reports a hit at that
\* point with rayDistance the parameter.
C12_RayBox ==
    (RayCalled /\ TargetIsBox) =>
        /\ rayHit <=> (Entry >= 0 /\ WithinBox(PointAt(SlabRay, Entry)))
        /\ rayHit => /\ rayColl.rayDistance = Entry
                     /\ rayColl.collidedAt = FromSlab(PointAt(SlabRay, Entry))
        /\ StrictlyInside(SlabRay.position) => ~rayHit
        /\ SlabRay.direction = Zero3 => ~rayHit

C12_Witness ==
    /\ RayCalled /\ TargetKind(TypeOBB) /\ Target.transform.orientation = RotZ
    /\ R.direction = Vec(0, -One, 0)
    /\ rayHit /\ rayColl.rayDistance = Entry /\ Entry > 0
    /\ rayColl.collidedAt = PointAt(R, Entry)

----------------------------------------------------------------------------
\* C13: whenever a ray query reports a hit, rayDistance >= 0 and collidedAt
\* is the point of the ray at rayDistance: the hit lies on the ray, in front
\* of its origin, also when the origin is inside the volume.
C13_HitOnRay ==
    RayHit => /\ rayColl.rayDistance >= 0
              /\ rayColl.collidedAt = PointAt(R, rayColl.rayDistance)

----------------------------------------------------------------------------
\* what the pair query of the step hands back when given a fresh manifold
\* in place of the caller's
FromFresh == ObjectIntersection(objs, last'.a, last'.b, NewCollisionInfo).info

\* C14: a pair query that returns true writes a manifold that depends on
\* the two objects alone: whatever the manifold held before, the manifold
\* after is the one a fresh manifold would have become.
C14_Purity ==
    [][(last'.op = "ObjectIntersection" /\ hit') => info' = FromFresh]_vars

----------------------------------------------------------------------------
\* objects a and b are handed to the test of oriented boxes
BoxKind(o) == o.boundingVolume.type \in {TypeAABB, TypeOBB}
BoxPath(a, b) ==
    /\ BoxKind(objs[a]) /\ BoxKind(objs[b])
    /\ ~(objs[a].boundingVolume.type = TypeAABB /\ objs[b].boundingVolume.type = TypeAABB)

\* the candidate axes of the test on a and b that are not skipped
KeptAxes(a, b) ==
    {d \in {OBBDirections(objs[a].transform, objs[b].transform)[i] : i \in 1..15} :
        Dot(d, d) >= AxisSkip}

\* the ends of the interval a box with transform t covers on axis d
Lo(t, d) == Dot(OBBSupport(t, VNeg(d)), d)
Hi(t, d) == Dot(OBBSupport(t, d), d)

Disjoint(tA, tB, d) == Hi(tA, d) < Lo(tB, d) \/ Hi(tB, d) < Lo(tA, d)

SamePose == X.transform = Y.transform

\* C15: the test of oriented boxes returns false exactly when the intervals
\* of the two boxes are disjoint on at least one axis that is not skipped;
\* boxes whose intervals overlap on every axis, sharing an endpoint
\* included, collide; so do two identical boxes at the same pose.
C15_SeparatingAxis ==
    (PairCalled /\ BothVolumes /\ BoxPath(last.a, last.b)) =>
        /\ ~hit <=> \E d \in KeptAxes(last.a, last.b) :
                        Disjoint(X.transform, Y.transform, d)
        /\ SamePose => hit

----------------------------------------------------------------------------
\* left and right of the test of boxes with transforms tA and tB on axis d
AxisLeft(tA, tB, d) ==
    Dot(VSub(OBBExtent(d, OBBSupport(tA, d), Dot(d, d)),
             OBBExtent(d, OBBSupport(tA, VNeg(d)), Dot(d, d))),
        VSub(OBBExtent(d, OBBSupport(tB, VNeg(d)), Dot(d, d)),
             OBBExtent(d, OBBSupport(tA, VNeg(d)), Dot(d, d))))

AxisRight(tA, tB, d) ==
    Dot(VSub(OBBExtent(d, OBBSupport(tA, VNeg(d)), Dot(d, d)),
             OBBExtent(d, OBBSupport(tA, d), Dot(d, d))),
        VSub(OBBExtent(d, OBBSupport(tB, d), Dot(d, d)),
             OBBExtent(d, OBBSupport(tA, d), Dot(d, d))))

\* on every axis that is not skipped the interval of b strictly contains
\* that of a
Contained(a, b) ==
    \A d \in KeptAxes(a, b) :
        /\ AxisLeft(objs[a].transform, objs[b].transform, d) < 0
        /\ AxisRight(objs[a].transform, objs[b].transform, d) < 0

\* C16: a test of oriented boxes in which, on every axis that is not
\* skipped, the second box's interval strictly contains the first's returns
\* true with penetration FLT_MAX, the normal the manifold held before, and
\* the anchors it held before less the centres of the boxes: neither the
\* least penetration nor the contact is ever assigned.
C16_StaleContact ==
    [][(/\ last'.op = "ObjectIntersection"
        /\ BoxPath(last'.a, last'.b)
        /\ Contained(last'.a, last'.b))
       => /\ hit'
          /\ info'.penetration = FLT_MAX
          /\ info'.normal = info.normal
          /\ info'.localA = VSub(info.localA, Centre(objs[last'.a]))
          /\ info'.localB = VSub(info.localB, Centre(objs[last'.b]))]_vars

\* such a test has returned, on a manifold used before
C16_Witness ==
    /\ PairCalled /\ BoxPath(last.a, last.b) /\ Contained(last.a, last.b)
    /\ hit /\ info.penetration = FLT_MAX
    /\ info.normal # Zero3 /\ info.localA # Zero3

----------------------------------------------------------------------------
\* the contact point of a manifold
Contact(ci) == <<ci.localA, ci.localB, ci.normal, ci.penetration>>

\* C17: a pair query on two objects with volumes that returns false leaves
\* the manifold's contact point (anchors, normal, penetration) as it was.
C17_FrameOnFalse ==
    [][(/\ last'.op = "ObjectIntersection"
        /\ HasVolume(objs[last'.a]) /\ HasVolume(objs[last'.b])
        /\ ~hit')
       => Contact(info') = Contact(info)]_vars

====
